---- MODULE Spec2Model ----
(***************************************************************************)
(* A model of utils/HDFTools.py: the NoiseTimeline class (catalog of HDF   *)
(* files, run-spanning mask timeline, is_valid, sample) and the function   *)
(* get_strain_from_hdf_file.                                               *)
(*                                                                         *)
(* Arrays are sequences; a numpy index i is position i+1 of the sequence.  *)
(***************************************************************************)
EXTENDS Integers, Sequences, FiniteSets, TLC

VARIABLES
    hdf_file_paths,     \* the files of the directory, in traversal order
    hdf_files,          \* self.hdf_files: the catalog, sorted by start time
    timeline,           \* self.timeline: the four run-spanning mask arrays
    pc,                 \* how far NoiseTimeline.__init__ has got
    real_event_times,   \* the merger times the event catalog returns
    call,               \* the last is_valid() call and its outcome
    smp,                \* the running sample() call
    ext,                \* the last get_strain_from_hdf_file() call
    qry                 \* the last get_file_paths_for_time / gps2idx / idx2gps call

vars == <<hdf_file_paths, hdf_files, timeline, pc, real_event_times, call, smp, ext, qry>>

(***************************************************************************)
(* Bounds of the model.                                                    *)
(***************************************************************************)
MaxFiles == 2       \* files in the directory
MaxStart == 1       \* start times are 0..MaxStart
MaxDur == 4         \* durations are 1..MaxDur
MaxDeltaT == 2      \* delta_t is 0..MaxDeltaT
TimeMargin == 2     \* queried times reach this far outside 0..MaxStart+MaxDur
MaxAttempts == 2    \* draws of a sample() call the model remembers
MaxSamples == 6     \* samples of a strain file
MaxCatFiles == 3    \* files in the directory of a catalog run

Detectors == {"H1", "L1"}

\* Mask values the files carry.  A data-quality value 2 passes the tier set
\* {0} by magnitude although its bit 0 is clear; an injection value 1 has
\* bit 0 set and bit 1 clear.
MaskVals == [good_dq |-> 2, poor_dq |-> 1, good_inj |-> 3, poor_inj |-> 1]

DQBitSets == {<<>>, <<0>>}
InjBitSets == {<<>>, <<0, 1>>}

(***************************************************************************)
(* numpy semantics the code relies on.                                     *)
(***************************************************************************)
Zeros(n) == [i \in 1..n |-> 0]

Const(n, v) == [i \in 1..n |-> v]

\* One bound of a[lo:hi]: a negative bound counts from the end, and every
\* bound is clipped to 0..len(a).
NormIdx(i, n) ==
    IF i < 0 THEN (IF i + n < 0 THEN 0 ELSE i + n)
    ELSE (IF i > n THEN n ELSE i)

SliceLen(a, lo, hi) ==
    LET s == NormIdx(lo, Len(a))
        e == NormIdx(hi, Len(a))
    IN  IF e <= s THEN 0 ELSE e - s

\* a[lo:hi]
Slice(a, lo, hi) ==
    LET s == NormIdx(lo, Len(a))
        e == NormIdx(hi, Len(a))
    IN  IF e <= s THEN <<>> ELSE SubSeq(a, s + 1, e)

\* Shapes (m,) and (k,) broadcast together.
BroadcastOK(m, k) == m = k \/ m = 1 \/ k = 1

\* a[lo:hi] = v raises ValueError unless v has the length of the slice or
\* length 1.
CanAssign(a, lo, hi, v) == Len(v) = SliceLen(a, lo, hi) \/ Len(v) = 1

SliceAssign(a, lo, hi, v) ==
    LET s == NormIdx(lo, Len(a))
        e == NormIdx(hi, Len(a))
    IN  [i \in 1..Len(a) |->
            IF s < i /\ i <= e
            THEN (IF Len(v) = 1 THEN v[1] ELSE v[i - s])
            ELSE a[i]]

RECURSIVE Pow2(_)
Pow2(k) == IF k = 0 THEN 1 ELSE 2 * Pow2(k - 1)

\* N & (1 << K) is non-zero
BitSet(x, k) == (x \div Pow2(k)) % 2 = 1

AllGreater_OrEqual(a, m) == \A i \in 1..Len(a) : a[i] >= m

\* np.all(a > m)
AllGreater(a, m) == \A i \in 1..Len(a) : a[i] > m

(***************************************************************************)
(* _get_hdf_files: the records, sorted by start time (sorted() is stable). *)
(***************************************************************************)
RECURSIVE InsertByStart(_, _)
InsertByStart(s, r) ==
    IF s = <<>> THEN <<r>>
    ELSE IF s[Len(s)].start_time <= r.start_time THEN Append(s, r)
    ELSE Append(InsertByStart(SubSeq(s, 1, Len(s) - 1), r), s[Len(s)])

RECURSIVE SortedByStart(_)
SortedByStart(s) ==
    IF s = <<>> THEN <<>>
    ELSE InsertByStart(SortedByStart(SubSeq(s, 1, Len(s) - 1)), s[Len(s)])

gps_start_time == hdf_files[1].start_time

gps_end_time == hdf_files[Len(hdf_files)].start_time + hdf_files[Len(hdf_files)].duration

gps2idx(gps) == gps - gps_start_time

idx2gps(idx) == idx + gps_start_time

(***************************************************************************)
(* _build_timeline                                                         *)
(***************************************************************************)
EmptyTimeline(n) ==
    [h1_inj_mask |-> Zeros(n), l1_inj_mask |-> Zeros(n),
     h1_dq_mask |-> Zeros(n), l1_dq_mask |-> Zeros(n)]

AddFile_OneDetector(st, f) ==
    LET idx_start == f.start_time - gps_start_time
        idx_end == idx_start + f.duration
        tl == st.tl
    IN  IF ~st.ok THEN st
        ELSE IF ~CanAssign(tl.h1_inj_mask, idx_start, idx_end, f.inj_mask)
                \/ ~CanAssign(tl.h1_dq_mask, idx_start, idx_end, f.dq_mask)
             THEN [st EXCEPT !.ok = FALSE]
             ELSE [st EXCEPT
                     !.tl.h1_inj_mask = SliceAssign(@, idx_start, idx_end, f.inj_mask),
                     !.tl.h1_dq_mask = SliceAssign(@, idx_start, idx_end, f.dq_mask)]

\* The body of the loop for one file; ok is FALSE once an assignment raised.
AddFile(st, f) ==
    LET idx_start == f.start_time - gps_start_time
        idx_end == idx_start + f.duration
        tl == st.tl
    IN  IF ~st.ok THEN st
        ELSE IF f.detector = "H1"
        THEN IF ~CanAssign(tl.h1_inj_mask, idx_start, idx_end, f.inj_mask)
                \/ ~CanAssign(tl.h1_dq_mask, idx_start, idx_end, f.dq_mask)
             THEN [st EXCEPT !.ok = FALSE]
             ELSE [st EXCEPT
                     !.tl.h1_inj_mask = SliceAssign(@, idx_start, idx_end, f.inj_mask),
                     !.tl.h1_dq_mask = SliceAssign(@, idx_start, idx_end, f.dq_mask)]
        ELSE IF ~CanAssign(tl.l1_inj_mask, idx_start, idx_end, f.inj_mask)
                \/ ~CanAssign(tl.l1_dq_mask, idx_start, idx_end, f.dq_mask)
             THEN [st EXCEPT !.ok = FALSE]
             ELSE [st EXCEPT
                     !.tl.l1_inj_mask = SliceAssign(@, idx_start, idx_end, f.inj_mask),
                     !.tl.l1_dq_mask = SliceAssign(@, idx_start, idx_end, f.dq_mask)]

RECURSIVE AddFiles_FirstWins(_, _)
AddFiles_FirstWins(st, k) ==
    IF k = 0 THEN st ELSE AddFiles_FirstWins(AddFile(st, hdf_files[k]), k - 1)

\* for hdf_file in self.hdf_files: the first k files, in catalog order.
RECURSIVE AddFiles(_, _)
AddFiles(st, k) ==
    IF k = 0 THEN st ELSE AddFile(AddFiles(st, k - 1), hdf_files[k])

\* [ok, tl]: the timeline, or ok = FALSE when the construction raised.
BuiltTimeline ==
    AddFiles([ok |-> TRUE, tl |-> EmptyTimeline(gps_end_time - gps_start_time)],
             Len(hdf_files))

(***************************************************************************)
(* is_valid                                                                *)
(***************************************************************************)
Abs(x) == IF x < 0 THEN -x ELSE x

TooCloseToEvent_Strict(gps_time, delta_t) ==
    \E e \in real_event_times : Abs(gps_time - e) < delta_t

\* any(abs(gps_time - _) <= delta_t for _ in real_event_times)
TooCloseToEvent(gps_time, delta_t) ==
    \E e \in real_event_times : Abs(gps_time - e) <= delta_t

\* start_time < gps_time < end_time
Contains(f, gps_time) ==
    f.start_time < gps_time /\ gps_time < f.start_time + f.duration

\* The file the loop stops at: the first of the catalog that contains
\* gps_time, 0 when the loop runs to its end.
FirstContaining(gps_time) ==
    IF \E k \in 1..Len(hdf_files) : Contains(hdf_files[k], gps_time)
    THEN CHOOSE k \in 1..Len(hdf_files) :
            /\ Contains(hdf_files[k], gps_time)
            /\ \A j \in 1..(k - 1) : ~Contains(hdf_files[j], gps_time)
    ELSE 0

FarFromEdges_Closed(f, gps_time, delta_t) ==
    f.start_time + delta_t <= gps_time
    /\ gps_time <= f.start_time + f.duration - delta_t

\* start_time + delta_t < gps_time < end_time - delta_t
FarFromEdges(f, gps_time, delta_t) ==
    f.start_time + delta_t < gps_time
    /\ gps_time < f.start_time + f.duration - delta_t

\* min_dq = sum([2**i for i in dq_bits])
RECURSIVE MinDQ(_)
MinDQ(dq_bits) ==
    IF dq_bits = <<>> THEN 0 ELSE Pow2(Head(dq_bits)) + MinDQ(Tail(dq_bits))

\* np.all(np.bitwise_and(env, np.left_shift(ones, i))), ones of length n:
\* a one-element env is broadcast to n elements, n = 1 to the length of env.
AllHaveBit(env, n, i) ==
    LET m == IF Len(env) = 1 THEN n ELSE Len(env)
    IN  \A j \in 1..m : BitSet(env[IF Len(env) = 1 THEN 1 ELSE j], i)

\* The loop over inj_bits, from the first bit on.
RECURSIVE InjCheck(_, _, _, _)
InjCheck(h1, l1, delta_t, inj_bits) ==
    IF inj_bits = <<>> THEN [ret |-> "True", at |-> "end"]
    ELSE IF ~BroadcastOK(Len(h1), 2 * delta_t)
         THEN [ret |-> "ValueError", at |-> "inj_h1"]
    ELSE IF ~AllHaveBit(h1, 2 * delta_t, Head(inj_bits))
         THEN [ret |-> "False", at |-> "inj_h1"]
    ELSE IF ~BroadcastOK(Len(l1), 2 * delta_t)
         THEN [ret |-> "ValueError", at |-> "inj_l1"]
    ELSE IF ~AllHaveBit(l1, 2 * delta_t, Head(inj_bits))
         THEN [ret |-> "False", at |-> "inj_l1"]
    ELSE InjCheck(h1, l1, delta_t, Tail(inj_bits))

\* [ret, at]: what is_valid returns ("True", "False", or the ValueError it
\* raises) and the statement it returns at.
IsValid(gps_time, delta_t, dq_bits, inj_bits) ==
    LET k == FirstContaining(gps_time)
        idx_start == gps2idx(gps_time) - delta_t
        idx_end == gps2idx(gps_time) + delta_t
        h1_inj == Slice(timeline.h1_inj_mask, idx_start, idx_end)
        l1_inj == Slice(timeline.l1_inj_mask, idx_start, idx_end)
        h1_dq == Slice(timeline.h1_dq_mask, idx_start, idx_end)
        l1_dq == Slice(timeline.l1_dq_mask, idx_start, idx_end)
        min_dq == MinDQ(dq_bits)
    IN  IF TooCloseToEvent(gps_time, delta_t)
        THEN [ret |-> "False", at |-> "event"]
        ELSE IF k # 0 /\ ~FarFromEdges(hdf_files[k], gps_time, delta_t)
        THEN [ret |-> "False", at |-> "edge"]
        ELSE IF ~AllGreater(h1_dq, min_dq)
        THEN [ret |-> "False", at |-> "dq_h1"]
        ELSE IF ~AllGreater(l1_dq, min_dq)
        THEN [ret |-> "False", at |-> "dq_l1"]
        ELSE InjCheck(h1_inj, l1_inj, delta_t, inj_bits)

(***************************************************************************)
(* The inputs: the files of the directory and the event catalog.           *)
(***************************************************************************)
\* A mask of length d that is v everywhere but w at position p (p = 0: v
\* everywhere).
MaskWith(d, v, p, w) == [i \in 1..d |-> IF i = p THEN w ELSE v]

\* The two masks of a file of duration d: all good, all of poor quality, or
\* one poor second in one of the two masks.
MaskPairs(d) ==
    {[dq_mask |-> Const(d, MaskVals.good_dq), inj_mask |-> Const(d, MaskVals.good_inj)],
     [dq_mask |-> Const(d, MaskVals.poor_dq), inj_mask |-> Const(d, MaskVals.good_inj)]}
    \cup {[dq_mask |-> MaskWith(d, MaskVals.good_dq, p, MaskVals.poor_dq),
           inj_mask |-> Const(d, MaskVals.good_inj)] : p \in 1..d}
    \cup {[dq_mask |-> Const(d, MaskVals.good_dq),
           inj_mask |-> MaskWith(d, MaskVals.good_inj, p, MaskVals.poor_inj)] : p \in 1..d}

\* What one file holds; len(inj_mask) = len(dq_mask) = duration, as
\* _get_hdf_files asserts.
FileContents ==
    UNION {{[start_time |-> s, detector |-> det, duration |-> d,
             inj_mask |-> m.inj_mask, dq_mask |-> m.dq_mask] : m \in MaskPairs(d)}
           : <<s, det, d>> \in (0..MaxStart) \X Detectors \X (1..MaxDur)}

\* The record _get_hdf_files appends for the i-th path.
FileRecord(i, c) ==
    [file_path |-> i, start_time |-> c.start_time, detector |-> c.detector,
     duration |-> c.duration, inj_mask |-> c.inj_mask, dq_mask |-> c.dq_mask]

Directories ==
    UNION {{[i \in 1..n |-> FileRecord(i, d[i])] : d \in [1..n -> FileContents]}
           : n \in 1..MaxFiles}

EventTimes == {3}

QueryTimes == (0 - TimeMargin)..(MaxStart + MaxDur + TimeMargin)

NoCall == [gps_time |-> 0, delta_t |-> 0, dq_bits |-> <<>>, inj_bits |-> <<>>,
           ret |-> "none", at |-> "none"]

NoSample == [state |-> "idle", delta_t |-> 0, dq_bits |-> <<>>, inj_bits |-> <<>>,
             draws |-> <<>>, ret |-> 0]

NoExtract == [state |-> "none"]

NoQuery == [op |-> "none"]

(***************************************************************************)
(* NoiseTimeline.__init__ and the calls on the finished object.            *)
(***************************************************************************)
InitWith(dirs) ==
    /\ hdf_file_paths \in dirs
    /\ hdf_files = <<>>
    /\ timeline = EmptyTimeline(0)
    /\ pc = "paths"
    /\ real_event_times \in SUBSET EventTimes
    /\ call = NoCall
    /\ smp = NoSample
    /\ ext = NoExtract
    /\ qry = NoQuery

Init == InitWith(Directories)

GetHdfFiles ==
    /\ pc = "paths"
    /\ hdf_files' = SortedByStart(hdf_file_paths)
    /\ pc' = "files"
    /\ UNCHANGED <<hdf_file_paths, timeline, real_event_times, call, smp, ext, qry>>

BuildTimeline ==
    /\ pc = "files"
    /\ IF BuiltTimeline.ok
       THEN timeline' = BuiltTimeline.tl /\ pc' = "ready"
       ELSE timeline' = timeline /\ pc' = "ValueError"
    /\ UNCHANGED <<hdf_file_paths, hdf_files, real_event_times, call, smp, ext, qry>>

IsValidCall_InPlace ==
    /\ pc = "ready"
    /\ call = NoCall
    /\ smp = NoSample
    /\ qry = NoQuery
    /\ \E gps_time \in QueryTimes, delta_t \in 0..MaxDeltaT,
          dq_bits \in DQBitSets, inj_bits \in InjBitSets :
          LET r == IsValid(gps_time, delta_t, dq_bits, inj_bits)
              idx_start == gps2idx(gps_time) - delta_t
              idx_end == gps2idx(gps_time) + delta_t
              h1_dq == Slice(timeline.h1_dq_mask, idx_start, idx_end)
              passed == [i \in 1..Len(h1_dq) |-> IF h1_dq[i] > MinDQ(dq_bits) THEN 1 ELSE 0]
          IN  /\ call' = [gps_time |-> gps_time, delta_t |-> delta_t,
                          dq_bits |-> dq_bits, inj_bits |-> inj_bits,
                          ret |-> r.ret, at |-> r.at]
              /\ timeline' = [timeline EXCEPT
                                !.h1_dq_mask = SliceAssign(@, idx_start, idx_end, passed)]
    /\ UNCHANGED <<hdf_file_paths, hdf_files, pc, real_event_times, smp, ext, qry>>

\* One call of is_valid on the finished object; calls do not overlap.
IsValidCall ==
    /\ pc = "ready"
    /\ call = NoCall
    /\ smp = NoSample
    /\ qry = NoQuery
    /\ \E gps_time \in QueryTimes, delta_t \in 0..MaxDeltaT,
          dq_bits \in DQBitSets, inj_bits \in InjBitSets :
          LET r == IsValid(gps_time, delta_t, dq_bits, inj_bits)
          IN  call' = [gps_time |-> gps_time, delta_t |-> delta_t,
                       dq_bits |-> dq_bits, inj_bits |-> inj_bits,
                       ret |-> r.ret, at |-> r.at]
    /\ UNCHANGED <<hdf_file_paths, hdf_files, timeline, pc, real_event_times, smp, ext, qry>>

\* The caller takes the result; the object is ready for the next call.
IsValidReturn ==
    /\ pc = "ready"
    /\ call # NoCall
    /\ smp = NoSample
    /\ qry = NoQuery
    /\ call' = NoCall
    /\ UNCHANGED <<hdf_file_paths, hdf_files, timeline, pc, real_event_times, smp, ext, qry>>

Next == GetHdfFiles \/ BuildTimeline \/ IsValidCall \/ IsValidReturn

Spec == Init /\ [][Next]_vars

(***************************************************************************)
(* sample: the rejection loop.                                             *)
(***************************************************************************)
\* The directories of the sample runs: quality masks all good or all poor,
\* injection masks all good or poor in their second second.
SampleDirectories ==
    {d \in Directories :
        \A i \in 1..Len(d) :
            /\ d[i].dq_mask \in {Const(d[i].duration, MaskVals.good_dq),
                                 Const(d[i].duration, MaskVals.poor_dq)}
            /\ d[i].inj_mask \in {Const(d[i].duration, MaskVals.good_inj),
                                  MaskWith(d[i].duration, MaskVals.good_inj, 2, MaskVals.poor_inj)}}

InitSample == InitWith(SampleDirectories)

\* The draws the model remembers: the last MaxAttempts of them.
Remember(draws, t) ==
    IF Len(draws) < MaxAttempts THEN Append(draws, t) ELSE Append(Tail(draws), t)

SampleCall ==
    /\ pc = "ready"
    /\ call = NoCall
    /\ smp = NoSample
    /\ qry = NoQuery
    /\ \E delta_t \in 0..MaxDeltaT, dq_bits \in DQBitSets, inj_bits \in InjBitSets :
          smp' = [state |-> "running", delta_t |-> delta_t, dq_bits |-> dq_bits,
                  inj_bits |-> inj_bits, draws |-> <<>>, ret |-> 0]
    /\ UNCHANGED <<hdf_file_paths, hdf_files, timeline, pc, real_event_times, call, ext, qry>>

\* The head of a turn of the while loop: np.random.randint(low, high)
\* raises ValueError when low >= high, else draws low <= gps_time < high.
SampleDraw ==
    /\ smp.state = "running"
    /\ LET low == gps_start_time + smp.delta_t
           high == gps_end_time - smp.delta_t
       IN  IF low >= high
           THEN smp' = [smp EXCEPT !.state = "ValueError"]
           ELSE \E gps_time \in low..(high - 1) :
                  smp' = [smp EXCEPT !.state = "drawn", !.draws = Remember(@, gps_time)]
    /\ UNCHANGED <<hdf_file_paths, hdf_files, timeline, pc, real_event_times, call, ext, qry>>

SampleTest_ReturnsAnyDraw ==
    /\ smp.state = "drawn"
    /\ smp' = [smp EXCEPT !.state = "returned", !.ret = smp.draws[Len(smp.draws)]]
    /\ UNCHANGED <<hdf_file_paths, hdf_files, timeline, pc, real_event_times, call, ext, qry>>

\* The rest of the turn: the draw is returned if is_valid accepts it, else
\* the loop goes on.
SampleTest ==
    /\ smp.state = "drawn"
    /\ LET gps_time == smp.draws[Len(smp.draws)]
           r == IsValid(gps_time, smp.delta_t, smp.dq_bits, smp.inj_bits)
       IN  smp' = [smp EXCEPT
                     !.state = IF r.ret = "True" THEN "returned"
                               ELSE IF r.ret = "False" THEN "running"
                               ELSE "ValueError",
                     !.ret = IF r.ret = "True" THEN gps_time ELSE @]
    /\ UNCHANGED <<hdf_file_paths, hdf_files, timeline, pc, real_event_times, call, ext, qry>>

\* The caller takes the result (or the exception).
SampleReturn ==
    /\ smp.state \in {"returned", "ValueError"}
    /\ smp' = NoSample
    /\ UNCHANGED <<hdf_file_paths, hdf_files, timeline, pc, real_event_times, call, ext, qry>>

NextSample ==
    GetHdfFiles \/ BuildTimeline \/ SampleCall \/ SampleDraw \/ SampleTest \/ SampleReturn

SpecSample == InitSample /\ [][NextSample]_vars

\* The loop runs as long as the program does.
FairSpecSample == SpecSample /\ WF_vars(SampleDraw) /\ WF_vars(SampleTest)

(***************************************************************************)
(* get_strain_from_hdf_file                                                *)
(***************************************************************************)
\* a[::k]
Stride(a, k) == [i \in 1..((Len(a) + k - 1) \div k) |-> a[(i - 1) * k + 1]]

StrainSample_RunStart(file, gps_time, delta_t, original_sampling_rate, target_sampling_rate) ==
    LET sampling_factor == original_sampling_rate \div target_sampling_rate
        start_idx == (gps_time - delta_t) * original_sampling_rate
        end_idx == (gps_time + delta_t) * original_sampling_rate
    IN  Stride(Slice(file.Strain, start_idx, end_idx), sampling_factor)

\* What the loop stores for one detector: strain[start_idx:end_idx], then
\* every sampling_factor-th sample of it.
StrainSample(file, gps_time, delta_t, original_sampling_rate, target_sampling_rate) ==
    LET sampling_factor == original_sampling_rate \div target_sampling_rate
        start_time == file.GPSstart
        start_idx == (gps_time - start_time - delta_t) * original_sampling_rate
        end_idx == (gps_time - start_time + delta_t) * original_sampling_rate
    IN  Stride(Slice(file.Strain, start_idx, end_idx), sampling_factor)

\* Sampling rates of the calls.
Rates == {1, 2, 4}

\* A strain file: its own start time and n samples; sample i (from 0) of
\* detector number d is the pair <<d, i>>.
StrainFiles(d) ==
    {[GPSstart |-> s, Strain |-> [i \in 1..n |-> <<d, i - 1>>]] :
        s \in 0..MaxStart, n \in 0..MaxSamples}

ExtractTimes == 0..(MaxStart + MaxSamples + 1)

InitExtract ==
    /\ hdf_file_paths = <<>>
    /\ hdf_files = <<>>
    /\ timeline = EmptyTimeline(0)
    /\ pc = "strain"
    /\ real_event_times = {}
    /\ call = NoCall
    /\ smp = NoSample
    /\ qry = NoQuery
    /\ \E h \in StrainFiles(1), l \in StrainFiles(2) :
          ext = [state |-> "idle", files |-> [H1 |-> h, L1 |-> l]]

\* One call with a target rate that divides the original rate (the
\* function asserts it).
GetStrain ==
    /\ pc = "strain"
    /\ ext.state = "idle"
    /\ \E gps_time \in ExtractTimes, delta_t \in 0..MaxDeltaT,
          osr \in Rates, tsr \in Rates :
          /\ osr % tsr = 0
          /\ ext' = [state |-> "done", files |-> ext.files,
                      gps_time |-> gps_time, delta_t |-> delta_t,
                      original_sampling_rate |-> osr, target_sampling_rate |-> tsr,
                      sample |-> [det \in Detectors |->
                                    StrainSample(ext.files[det], gps_time, delta_t, osr, tsr)]]
    /\ UNCHANGED <<hdf_file_paths, hdf_files, timeline, pc, real_event_times, call, smp, qry>>

GetStrainReturn ==
    /\ pc = "strain"
    /\ ext.state = "done"
    /\ ext' = [state |-> "idle", files |-> ext.files]
    /\ UNCHANGED <<hdf_file_paths, hdf_files, timeline, pc, real_event_times, call, smp, qry>>

NextExtract == GetStrain \/ GetStrainReturn

SpecExtract == InitExtract /\ [][NextExtract]_vars

(***************************************************************************)
(* get_file_paths_for_time, gps2idx, idx2gps: the queries on the finished  *)
(* object, and is_valid repeated with the arguments of the call before.    *)
(***************************************************************************)
\* The value of get_file_paths_for_time: the dict, or None (found = FALSE).
\* A detector that is not in the dict has path 0; file paths are 1, 2, ...
NoPaths == [found |-> FALSE, H1 |-> 0, L1 |-> 0]

Store(result, detector, file_path) ==
    IF detector = "H1" THEN [result EXCEPT !.H1 = file_path]
    ELSE [result EXCEPT !.L1 = file_path]

RECURSIVE ScanFrom_KeepFirst(_, _, _)
ScanFrom_KeepFirst(k, result, gps_time) ==
    IF k > Len(hdf_files) THEN NoPaths
    ELSE LET f == hdf_files[k]
             r == IF Contains(f, gps_time)
                     /\ (IF f.detector = "H1" THEN result.H1 ELSE result.L1) = 0
                  THEN Store(result, f.detector, f.file_path)
                  ELSE result
         IN  IF r.H1 # 0 /\ r.L1 # 0
             THEN [r EXCEPT !.found = TRUE]
             ELSE ScanFrom_KeepFirst(k + 1, r, gps_time)

\* The loop over self.hdf_files from its k-th turn on: a file that contains
\* gps_time stores its path under its detector, whatever is stored there;
\* the loop returns at the end of the first turn that finds both keys set.
RECURSIVE ScanFrom(_, _, _)
ScanFrom(k, result, gps_time) ==
    IF k > Len(hdf_files) THEN NoPaths
    ELSE LET f == hdf_files[k]
             r == IF Contains(f, gps_time)
                  THEN Store(result, f.detector, f.file_path)
                  ELSE result
         IN  IF r.H1 # 0 /\ r.L1 # 0
             THEN [r EXCEPT !.found = TRUE]
             ELSE ScanFrom(k + 1, r, gps_time)

get_file_paths_for_time(gps_time) == ScanFrom(1, NoPaths, gps_time)

\* The indices idx2gps is asked about.
QueryIndices == 0..(MaxDur + 1)

GetFilePathsForTime ==
    /\ pc = "ready"
    /\ smp = NoSample
    /\ qry = NoQuery
    /\ \E gps_time \in QueryTimes :
          qry' = [op |-> "get_file_paths_for_time", arg |-> gps_time,
                  result |-> get_file_paths_for_time(gps_time)]
    /\ UNCHANGED <<hdf_file_paths, hdf_files, timeline, pc, real_event_times, call, smp, ext>>

Gps2Idx ==
    /\ pc = "ready"
    /\ smp = NoSample
    /\ qry = NoQuery
    /\ \E gps \in QueryTimes :
          qry' = [op |-> "gps2idx", arg |-> gps, result |-> gps2idx(gps)]
    /\ UNCHANGED <<hdf_file_paths, hdf_files, timeline, pc, real_event_times, call, smp, ext>>

Idx2Gps ==
    /\ pc = "ready"
    /\ smp = NoSample
    /\ qry = NoQuery
    /\ \E idx \in QueryIndices :
          qry' = [op |-> "idx2gps", arg |-> idx, result |-> idx2gps(idx)]
    /\ UNCHANGED <<hdf_file_paths, hdf_files, timeline, pc, real_event_times, call, smp, ext>>

\* is_valid called again with the arguments of the call whose result the
\* caller still holds.
IsValidAgain ==
    /\ pc = "ready"
    /\ call # NoCall
    /\ smp = NoSample
    /\ qry = NoQuery
    /\ LET r == IsValid(call.gps_time, call.delta_t, call.dq_bits, call.inj_bits)
       IN  qry' = [op |-> "is_valid", arg |-> call.gps_time, result |-> r]
    /\ UNCHANGED <<hdf_file_paths, hdf_files, timeline, pc, real_event_times, call, smp, ext>>

\* The caller takes the result of the query.
QueryReturn ==
    /\ qry # NoQuery
    /\ qry' = NoQuery
    /\ UNCHANGED <<hdf_file_paths, hdf_files, timeline, pc, real_event_times, call, smp, ext>>

\* The directories of the query runs: those of the sample runs whose first
\* path is an H1 file that starts at 0.
QueryDirectories ==
    {d \in SampleDirectories : d[1].detector = "H1" /\ d[1].start_time = 0}

InitQueries == InitWith(QueryDirectories)

NextQueries ==
    \/ GetHdfFiles \/ BuildTimeline
    \/ IsValidCall \/ IsValidAgain \/ IsValidReturn
    \/ GetFilePathsForTime \/ Gps2Idx \/ Idx2Gps \/ QueryReturn
    \/ SampleCall \/ SampleDraw \/ SampleTest \/ SampleReturn

SpecQueries == InitQueries /\ [][NextQueries]_vars

(***************************************************************************)
(* Catalogs of up to MaxCatFiles files, with files of one detector that    *)
(* overlap: the construction and get_file_paths_for_time.                  *)
(***************************************************************************)
\* A file of the catalog runs is clean (all masks good) or marked (all poor).
CatalogContents ==
    UNION {{[start_time |-> s, detector |-> det, duration |-> d,
             inj_mask |-> Const(d, MaskVals.good_inj), dq_mask |-> Const(d, MaskVals.good_dq)],
            [start_time |-> s, detector |-> det, duration |-> d,
             inj_mask |-> Const(d, MaskVals.poor_inj), dq_mask |-> Const(d, MaskVals.poor_dq)]}
           : <<s, det, d>> \in (0..MaxStart) \X Detectors \X (1..MaxDur)}

\* The directory whose i-th path holds d[i].
CatalogDirectory(d) == [i \in DOMAIN d |-> FileRecord(i, d[i])]

InitCatalog ==
    /\ \E n \in 1..MaxCatFiles : \E d \in [1..n -> CatalogContents] :
          hdf_file_paths = CatalogDirectory(d)
    /\ hdf_files = <<>>
    /\ timeline = EmptyTimeline(0)
    /\ pc = "paths"
    /\ real_event_times = {}
    /\ call = NoCall
    /\ smp = NoSample
    /\ ext = NoExtract
    /\ qry = NoQuery

NextCatalog == GetHdfFiles \/ BuildTimeline \/ GetFilePathsForTime \/ QueryReturn

SpecCatalog == InitCatalog /\ [][NextCatalog]_vars

(***************************************************************************)
(* What the claims speak about.                                            *)
(***************************************************************************)
Called == call.ret # "none"

InjArray(det) == IF det = "H1" THEN timeline.h1_inj_mask ELSE timeline.l1_inj_mask

DQArray(det) == IF det = "H1" THEN timeline.h1_dq_mask ELSE timeline.l1_dq_mask

RunLength == gps_end_time - gps_start_time

\* Two files of one detector share a second.
SameDetectorOverlap ==
    \E a, b \in 1..Len(hdf_files) :
        /\ a # b
        /\ hdf_files[a].detector = hdf_files[b].detector
        /\ hdf_files[a].start_time < hdf_files[b].start_time + hdf_files[b].duration
        /\ hdf_files[b].start_time < hdf_files[a].start_time + hdf_files[a].duration

\* Slot i (from 0) of detector det lies in a file of det.
Covered(det, i) ==
    \E k \in 1..Len(hdf_files) :
        /\ hdf_files[k].detector = det
        /\ hdf_files[k].start_time - gps_start_time <= i
        /\ i < hdf_files[k].start_time - gps_start_time + hdf_files[k].duration

\* The slots (from 0) of the window of the last call, as the claims count them.
WindowSlots == (gps2idx(call.gps_time) - call.delta_t)..(gps2idx(call.gps_time) + call.delta_t - 1)

WindowInRun ==
    /\ 0 <= gps2idx(call.gps_time) - call.delta_t
    /\ gps2idx(call.gps_time) + call.delta_t <= RunLength

\* The slices of the last call's window.
WindowDQ(det) ==
    Slice(DQArray(det), gps2idx(call.gps_time) - call.delta_t,
          gps2idx(call.gps_time) + call.delta_t)

WindowInj(det) ==
    Slice(InjArray(det), gps2idx(call.gps_time) - call.delta_t,
          gps2idx(call.gps_time) + call.delta_t)

Elements(a) == {a[i] : i \in 1..Len(a)}

BitsOf(t) == {t[i] : i \in 1..Len(t)}

RECURSIVE SumPow2(_)
SumPow2(S) ==
    IF S = {} THEN 0
    ELSE LET k == CHOOSE x \in S : TRUE IN Pow2(k) + SumPow2(S \ {k})

MinRequired == SumPow2(BitsOf(call.dq_bits))

\* C1: once the timeline is built from files of which no two of one
\* detector overlap, every second of every file holds that file's mask
\* values in the two arrays of its detector, and every slot of the four
\* arrays that no file of that detector covers is 0.
C1_TimelineReproducesMasks ==
    (pc = "ready" /\ ~SameDetectorOverlap) =>
        /\ \A k \in 1..Len(hdf_files) : \A j \in 0..(hdf_files[k].duration - 1) :
              LET r == hdf_files[k]
                  i == r.start_time - gps_start_time + j
              IN  /\ 0 <= i /\ i < Len(DQArray(r.detector))
                  /\ i < Len(InjArray(r.detector))
                  /\ DQArray(r.detector)[i + 1] = r.dq_mask[j + 1]
                  /\ InjArray(r.detector)[i + 1] = r.inj_mask[j + 1]
        /\ \A det \in Detectors :
              /\ Len(DQArray(det)) = RunLength
              /\ Len(InjArray(det)) = RunLength
              /\ \A i \in 0..(RunLength - 1) :
                    ~Covered(det, i) => DQArray(det)[i + 1] = 0 /\ InjArray(det)[i + 1] = 0

\* A timeline of two files of different detectors, one with a poor second,
\* with a slot of one detector that no file of it covers.
C1_Witness ==
    /\ pc = "ready" /\ ~SameDetectorOverlap
    /\ Len(hdf_files) = 2
    /\ hdf_files[1].detector # hdf_files[2].detector
    /\ hdf_files[1].start_time # hdf_files[2].start_time
    /\ \E k \in 1..2 : MaskVals.poor_inj \in Elements(hdf_files[k].inj_mask)
                         /\ MaskVals.good_inj \in Elements(hdf_files[k].inj_mask)
    /\ \E det \in Detectors : \E i \in 0..(RunLength - 1) : ~Covered(det, i)

\* C2: a call whose gps_time lies within delta_t (inclusive) of an event
\* time returns False whatever the masks and files are, and the event rule
\* rejects no other time: E - W - 1 and E + W + 1 are rejected by it only
\* when another event is within W of them.
C2_EventWindowRejected ==
    Called =>
        /\ (\E e \in real_event_times :
               e - call.delta_t <= call.gps_time /\ call.gps_time <= e + call.delta_t)
           => call.ret = "False" /\ call.at = "event"
        /\ call.at = "event" =>
              \E e \in real_event_times :
                 e - call.delta_t <= call.gps_time /\ call.gps_time <= e + call.delta_t

\* A time at the start E - W of an event's window, W >= 1, inside a file and
\* far from its edges, with all masks of the window passing: only the event
\* rule rejects it.
C2_Witness ==
    /\ Called /\ call.at = "event" /\ call.delta_t >= 1
    /\ \E e \in real_event_times : call.gps_time = e - call.delta_t
    /\ FirstContaining(call.gps_time) # 0
    /\ FarFromEdges(hdf_files[FirstContaining(call.gps_time)], call.gps_time, call.delta_t)
    /\ \A det \in Detectors :
          /\ Elements(WindowDQ(det)) = {MaskVals.good_dq}
          /\ Elements(WindowInj(det)) = {MaskVals.good_inj}

\* The file is_valid stops its search at, for the last call (0: none).
Found == FirstContaining(call.gps_time)

NearEventOf(t, w) == \E e \in real_event_times : e - w <= t /\ t <= e + w

NearEvent == \E e \in real_event_times : Abs(call.gps_time - e) <= call.delta_t

\* Every second of the window, in both detectors, passes the quality and
\* the injection requirement of the last call.
WindowAllPassing ==
    /\ WindowInRun
    /\ \A det \in Detectors : \A i \in WindowSlots :
          /\ DQArray(det)[i + 1] > MinRequired
          /\ \A b \in BitsOf(call.inj_bits) : BitSet(InjArray(det)[i + 1], b)

ReachedMaskChecks == Called /\ call.at \notin {"event", "edge"}

\* C3 as stated: for a file [S, S+D) of the catalog, a time in (S, S+W) or
\* in (S+D-W, S+D) is rejected, and a time in the closed range
\* [S+W, S+D-W] passes the edge check (no other file being the one
\* is_valid stops at), so that it is valid when no event is near and all
\* masks of the window pass.
C3_ClosedRangePassesEdgeCheck ==
    Called =>
        \A k \in 1..Len(hdf_files) :
            LET S == hdf_files[k].start_time
                D == hdf_files[k].duration
                W == call.delta_t
                t == call.gps_time
            IN  /\ ((S < t /\ t < S + W) \/ (S + D - W < t /\ t < S + D))
                      => call.ret = "False"
                /\ (S + W <= t /\ t <= S + D - W /\ Found \in {0, k})
                      => /\ call.at # "edge"
                         /\ (~NearEvent /\ WindowAllPassing) => call.ret = "True"

\* C3 as amended: for the first file [S, S+D) of the catalog that strictly
\* contains the time, the call returns False whenever not
\* S+W < time < S+D-W (the ends S+W and S+D-W included), whatever the
\* masks; a time with S+W < time < S+D-W passes the edge check, and is
\* valid when no event is near and all masks of the window pass.
C3_EdgeCheck ==
    (Called /\ Found # 0) =>
        LET S == hdf_files[Found].start_time
            D == hdf_files[Found].duration
            W == call.delta_t
            t == call.gps_time
        IN  /\ (t <= S + W \/ S + D - W <= t)
                  => /\ call.ret = "False"
                     /\ ~NearEvent => call.at = "edge"
            /\ (S + W < t /\ t < S + D - W)
                  => /\ call.at # "edge"
                     /\ (~NearEvent /\ WindowAllPassing) => call.ret = "True"

\* A time exactly delta_t >= 1 after the start of its file, with no event
\* near and a window of passing masks only, rejected by the edge check.
C3_Witness ==
    /\ Called /\ Found # 0 /\ call.delta_t >= 1
    /\ call.gps_time = hdf_files[Found].start_time + call.delta_t
    /\ call.gps_time < hdf_files[Found].start_time + hdf_files[Found].duration - call.delta_t
    /\ WindowAllPassing
    /\ call.at = "edge" /\ call.ret = "False"

\* C4: a call for a time that no file of the catalog strictly contains
\* returns False.
C4_UncontainedTimeInvalid ==
    (Called /\ Found = 0) => call.ret = "False"

C6_InjectionCheck ==
    Called =>
        /\ (\E b \in BitsOf(call.inj_bits) : \E det \in Detectors :
               \E x \in Elements(WindowInj(det)) : ~BitSet(x, b))
              => call.ret = "False"
        /\ call.ret = "True"
              => \A b \in BitsOf(call.inj_bits) : \A det \in Detectors :
                    \A x \in Elements(WindowInj(det)) : BitSet(x, b)

\* C7: when the call reaches the mask checks its window lies inside the
\* arrays and selects 2 * delta_t slots, and no call returns True on a
\* shorter slice.
C7_WindowInsideRun ==
    ReachedMaskChecks =>
        /\ WindowInRun
        /\ \A det \in Detectors :
              Len(WindowDQ(det)) = 2 * call.delta_t /\ Len(WindowInj(det)) = 2 * call.delta_t

\* The range sample draws from, for the running call.
SampleRange == (gps_start_time + smp.delta_t)..(gps_end_time - smp.delta_t - 1)

SampleAccepts(t) == IsValid(t, smp.delta_t, smp.dq_bits, smp.inj_bits).ret = "True"

\* C8: the time sample returns lies in
\* [gps_start_time + delta_t, gps_end_time - delta_t), is_valid accepts it
\* with the arguments of the call, it is the last draw, and every
\* remembered draw before it was rejected.
C8_SampleReturnsValid ==
    smp.state = "returned" =>
        /\ smp.ret \in SampleRange
        /\ SampleAccepts(smp.ret)
        /\ ~NearEventOf(smp.ret, smp.delta_t)
        /\ smp.draws # <<>> /\ smp.draws[Len(smp.draws)] = smp.ret
        /\ \A i \in 1..(Len(smp.draws) - 1) : ~SampleAccepts(smp.draws[i])

\* sample returns, with delta_t >= 1, after a rejected draw.
C8_Witness ==
    /\ smp.state = "returned" /\ smp.delta_t >= 1
    /\ Len(smp.draws) = 2 /\ smp.draws[1] # smp.ret

\* C9: a sample call for which no time of its (non-empty) range is valid
\* ends by signalling NoValidTimeFoundError.
C9_SampleGivesUp ==
    [](((smp.state \in {"running", "drawn"}) /\ SampleRange # {}
            /\ (\A t \in SampleRange : ~SampleAccepts(t)))
          => <>(smp.state = "NoValidTimeFoundError"))

\* The raw index (from 0) of the first sample of the window in the file of
\* det, and the one after its last.
RawStart(det) == (ext.gps_time - ext.files[det].GPSstart - ext.delta_t) * ext.original_sampling_rate

RawEnd(det) == (ext.gps_time - ext.files[det].GPSstart + ext.delta_t) * ext.original_sampling_rate

\* The output for det has 2 * delta_t * target_sampling_rate elements, the
\* i-th being raw[RawStart + i * (original rate / target rate)].
ExtractIsDecimatedWindow(det) ==
    LET out == ext.sample[det]
        raw == ext.files[det].Strain
        n == 2 * ext.delta_t * ext.target_sampling_rate
        step == ext.original_sampling_rate \div ext.target_sampling_rate
    IN  /\ Len(out) = n
        /\ \A i \in 0..(n - 1) :
              /\ 0 <= RawStart(det) + i * step
              /\ RawStart(det) + i * step < Len(raw)
              /\ out[i + 1] = raw[RawStart(det) + i * step + 1]

\* C10 as stated: every call returns, for each detector, the decimated
\* window of 2 * delta_t * target_sampling_rate elements.
C10_ExtractAnyTime ==
    ext.state = "done" => \A det \in Detectors : ExtractIsDecimatedWindow(det)

\* C10 as amended: it does so for each detector whose file holds the whole
\* window, 0 <= RawStart and RawEnd <= len(strain).
C10_ExtractWindowInFile ==
    ext.state = "done" =>
        \A det \in Detectors :
            (0 <= RawStart(det) /\ RawEnd(det) <= Len(ext.files[det].Strain))
                => ExtractIsDecimatedWindow(det)

\* A call that halves the rate of a window of 4 raw samples which each
\* file holds, the two files starting at different times.
C10_Witness ==
    /\ ext.state = "done"
    /\ ext.delta_t = 1 /\ ext.original_sampling_rate = 2 /\ ext.target_sampling_rate = 1
    /\ \A det \in Detectors :
          /\ 0 <= RawStart(det) /\ RawEnd(det) <= Len(ext.files[det].Strain)
          /\ Len(ext.sample[det]) = 2
    /\ ext.files["H1"].GPSstart # ext.files["L1"].GPSstart

\* C11: on the finished object every step of is_valid,
\* get_file_paths_for_time, gps2idx, idx2gps and sample leaves the four
\* timeline arrays, the catalog, the event times and the run's start and end
\* time as they were; is_valid called again with the same arguments, after
\* any such queries, returns what it returned before; and a step of sample
\* changes nothing but the sample call's own draws and result.
C11_QueriesReadOnly ==
    [][(pc = "ready") =>
          /\ timeline' = timeline
          /\ hdf_files' = hdf_files
          /\ hdf_file_paths' = hdf_file_paths
          /\ real_event_times' = real_event_times
          /\ gps_start_time' = gps_start_time
          /\ gps_end_time' = gps_end_time
          /\ (qry'.op = "is_valid" /\ qry.op = "none") =>
                qry'.result = [ret |-> call.ret, at |-> call.at]
          /\ (smp' # smp) => (call' = call /\ qry' = qry /\ ext' = ext)]_vars

\* is_valid has been called twice with the same arguments on a timeline
\* with nonzero slots, and both calls returned True.
C11_Witness ==
    /\ pc = "ready"
    /\ qry.op = "is_valid"
    /\ call.ret = "True"
    /\ qry.result.ret = "True"
    /\ call.delta_t > 0
    /\ \E i \in 1..Len(timeline.h1_dq_mask) : timeline.h1_dq_mask[i] # 0

\* The records of detector det that contain gps_time, by their place in the
\* catalog.
ContainingOf(det, gps_time) ==
    {k \in 1..Len(hdf_files) :
        hdf_files[k].detector = det /\ Contains(hdf_files[k], gps_time)}

BothContain(gps_time) == \A det \in Detectors : ContainingOf(det, gps_time) # {}

MinOf(S) == CHOOSE x \in S : \A y \in S : x <= y

MaxOf(S) == CHOOSE x \in S : \A y \in S : y <= x

\* The place of the record at which both detectors have a containing record
\* behind them.
ResolvedAt(gps_time) ==
    MaxOf({MinOf(ContainingOf(det, gps_time)) : det \in Detectors})

PathOf(result, det) == IF det = "H1" THEN result.H1 ELSE result.L1

Located == qry.op = "get_file_paths_for_time"

\* C12 as stated: when both detectors have a record that contains the time,
\* get_file_paths_for_time returns for each detector the path of the first
\* record of that detector, in catalog order, that contains the time.
C12_FirstContaining ==
    (Located /\ BothContain(qry.arg)) =>
        /\ qry.result.found
        /\ \A det \in Detectors :
              PathOf(qry.result, det)
                  = hdf_files[MinOf(ContainingOf(det, qry.arg))].file_path

\* C12, amended: get_file_paths_for_time returns paths exactly when both
\* detectors have a record that contains the time, and then the path for
\* each detector is that of the last record of that detector containing the
\* time among the records up to the one at which both detectors are
\* resolved: a later containing record of a detector replaces an earlier one
\* as long as the other detector is not resolved.
C12_LastBeforeResolved ==
    Located =>
        /\ qry.result.found = BothContain(qry.arg)
        /\ BothContain(qry.arg) =>
              \A det \in Detectors :
                 PathOf(qry.result, det)
                     = hdf_files[MaxOf({k \in ContainingOf(det, qry.arg) :
                                          k <= ResolvedAt(qry.arg)})].file_path
        /\ ~BothContain(qry.arg) => qry.result = NoPaths

\* Two records of one detector contain the time and both are scanned before
\* the other detector is resolved: the path returned is the second one's.
C12_Witness ==
    /\ Located
    /\ qry.result.found
    /\ \E det \in Detectors :
          /\ PathOf(qry.result, det)
                # hdf_files[MinOf(ContainingOf(det, qry.arg))].file_path
          /\ PathOf(qry.result, det)
                = hdf_files[MaxOf(ContainingOf(det, qry.arg))].file_path

StartTimes == {hdf_files[k].start_time : k \in 1..Len(hdf_files)}

EndTimes == {hdf_files[k].start_time + hdf_files[k].duration : k \in 1..Len(hdf_files)}

\* C13 as stated: once the catalog is read, gps_start_time is the smallest
\* start time and gps_end_time the largest end time of its records, every
\* record's slots lie inside the arrays, and the construction does not fail
\* copying a record's masks.
C13_RunSpanCoversAllRecords ==
    (pc \in {"files", "ready", "ValueError"}) =>
        /\ gps_start_time = MinOf(StartTimes)
        /\ gps_end_time = MaxOf(EndTimes)
        /\ \A k \in 1..Len(hdf_files) :
              /\ 0 <= hdf_files[k].start_time - gps_start_time
              /\ hdf_files[k].start_time - gps_start_time + hdf_files[k].duration
                    <= RunLength
        /\ pc # "ValueError"

\* The records of detector det that cover slot i (from 0), by their place in
\* the catalog.
CoveringOf(det, i) ==
    {k \in 1..Len(hdf_files) :
        /\ hdf_files[k].detector = det
        /\ hdf_files[k].start_time - gps_start_time <= i
        /\ i < hdf_files[k].start_time - gps_start_time + hdf_files[k].duration}

Other(det) == IF det = "H1" THEN "L1" ELSE "H1"

\* C14: once the timeline is built, every slot that records of a detector
\* cover holds, in the two arrays of that detector, the mask values of the
\* last of these records in catalog order, whatever the records of the
\* other detector hold there; a slot that no record of the detector covers
\* is 0.
C14_LastWriteWins ==
    (pc = "ready") =>
        \A det \in Detectors : \A i \in 0..(RunLength - 1) :
            IF CoveringOf(det, i) = {}
            THEN DQArray(det)[i + 1] = 0 /\ InjArray(det)[i + 1] = 0
            ELSE LET r == hdf_files[MaxOf(CoveringOf(det, i))]
                     j == i - (r.start_time - gps_start_time)
                 IN  /\ DQArray(det)[i + 1] = r.dq_mask[j + 1]
                     /\ InjArray(det)[i + 1] = r.inj_mask[j + 1]

\* Two records of one detector with different mask values cover a second of
\* the finished timeline, and a record of the other detector whose values
\* differ from the later of the two covers it as well.
C14_Witness ==
    /\ pc = "ready"
    /\ \E det \in Detectors : \E i \in 0..(RunLength - 1) :
          \E a, b \in CoveringOf(det, i) : \E c \in CoveringOf(Other(det), i) :
              /\ a < b
              /\ b = MaxOf(CoveringOf(det, i))
              /\ hdf_files[a].dq_mask # hdf_files[b].dq_mask
              /\ hdf_files[c].dq_mask[1] # hdf_files[b].dq_mask[1]
              /\ b < c

====
